---- MODULE Spec2Model ----
(***************************************************************************)
(* setup_ipython_server.py: one-shot provisioning of the "nbserver"        *)
(* IPython notebook profile.                                               *)
(*                                                                         *)
(* Strings are sequences of symbols.  A symbol is either one character     *)
(* that the program looks at (":", "{", "}", "1", "5", "6", ...) or a run  *)
(* of characters the program never looks inside (a brace-free, colon-free  *)
(* piece of text).  Python's None is a value of its own.                   *)
(***************************************************************************)
EXTENDS Integers, Sequences, FiniteSets, TLC

VARIABLES
    pc,               \* position of the script: "start", a step of main, "done", "died"
    runs,             \* number of invocations of the script so far
    silent,           \* args.silent
    syspassword,      \* args.syspassword as given on the command line
    system_password,  \* the argument main() is called with
    password_hash,    \* main's local password_hash
    prompted,         \* IPython.lib.passwd() was called in this run
    error,            \* the exception that ended this run, "none" if none
    diedAt,           \* the step that raised it
    log,              \* steps of main started in this run, in order
    ipython_dir,      \* IPython.utils.path.get_ipython_dir()
    fs,               \* the filesystem under ipython_dir
    pre,              \* fs as it was when this run started
    written           \* completed runs: command line and the config file left

vars == <<pc, runs, silent, syspassword, system_password, password_hash,
          prompted, error, diedAt, log, ipython_dir, fs, pre, written>>

-----------------------------------------------------------------------------
(* Bounds *)

MaxRuns == 2      \* invocations of the script in one behaviour
MaxLen == 7       \* longest password fed to system_password_to_hash on its own

-----------------------------------------------------------------------------
(* Python values *)

None == [none |-> TRUE, str |-> <<>>]
Str(s) == [none |-> FALSE, str |-> s]

\* Python truthiness of an optional string: None and "" are false
Truthy(v) == ~v.none /\ v.str # <<>>

-----------------------------------------------------------------------------
(* Module constants, lines 38-40 *)

profile_name == <<"nbserver">>
ipython_port == 9510
ipython_location == <<"/ipython">>

\* the five replacement fields of profile_config
FieldNames == {"hash", "port", "location", "certfile", "keyfile"}

profile_config ==
    <<"\n# Configuration file for ipython, intended for notebook server.\n# Generated by GVL setup script.\n\nc = get_config()\n\n# plotting support by default\nc.IPKernelApp.pylab = 'inline'\n\n# rmagic extension by default\nc.InteractiveShellApp.extensions = [\n    'rmagic'\n]\n\n# Do not open local browser, just run as a server\nc.NotebookApp.open_browser = False\n\n# Require password authentication\nc.NotebookApp.password = u'",
      "{", "hash", "}",
      "'\n\n# Use a known port, which should match that in nginx port forwarding.\n# Do not try any other ports.\n# If you are editing your config to allow multiple instances of IPython Notebook\n# to run simultaneously, you may want to change these settings.\nc.NotebookApp.port = ",
      "{", "port", "}",
      "\nc.NotebookApp.port_retries = 0\n\n# Assume that we will run at a subdirectory when port-forwarded\nc.NotebookApp.base_project_url = '",
      "{", "location", "}",
      "/'\nc.NotebookApp.base_kernel_url = '",
      "{", "location", "}",
      "/'\nc.NotebookApp.webapp_settings = ",
      "{", "{",
      "'static_url_prefix':'",
      "{", "location", "}",
      "/static/'",
      "}", "}",
      "\n\n# Above, we do not set c.NotebookApp.ip, so by default Notebook will only\n# listen on localhost. We are relying on NGINX port forwarding.\n# We also do not set up encryption, as NGINX will do this for us.\n# If you want to use open ports directly instead, we have created self-signed\n# certificates for convenience. Comment out the subdirectory config above and uncomment\n# the following lines:\n#c.NotebookApp.ip = '*'\n#c.NotebookApp.certfile = u'",
      "{", "certfile", "}",
      "'\n#c.NotebookApp.keyfile = u'",
      "{", "keyfile", "}",
      "'\n">>

extension_javascript ==
    <<"\nrequire([\"nbextensions/toc\"], function (toc) ",
      "{",
      "\n    console.log('Table of Contents extension loaded');\n    toc.load_ipython_extension();\n",
      "}",
      ");\n">>

-----------------------------------------------------------------------------
(* Library functions the script uses, by what they do *)

\* str.split(sep): the fields between the separators, at least one field
RECURSIVE split(_, _)
split(s, sep) ==
    IF \A i \in 1..Len(s) : s[i] # sep
    THEN <<s>>
    ELSE LET k == CHOOSE i \in 1..Len(s) :
                      s[i] = sep /\ \A j \in 1..(i - 1) : s[j] # sep
         IN <<SubSeq(s, 1, k - 1)>> \o split(SubSeq(s, k + 1, Len(s)), sep)

\* os.path.join(a, b) for a relative b
path_join(a, b) == a \o <<"/">> \o b

\* str.format with keyword arguments: "{{" and "}}" give one brace, "{name}"
\* gives str(kwargs[name]); the values put in are not scanned again
RECURSIVE format(_, _)
format(template, kwargs) ==
    IF template = <<>> THEN <<>>
    ELSE LET c == Head(template)
             n == Len(template)
         IN IF c = "{" /\ n >= 2 /\ template[2] = "{"
            THEN <<"{">> \o format(SubSeq(template, 3, n), kwargs)
            ELSE IF c = "}" /\ n >= 2 /\ template[2] = "}"
            THEN <<"}">> \o format(SubSeq(template, 3, n), kwargs)
            ELSE IF c = "{" /\ n >= 3 /\ template[3] = "}"
            THEN kwargs[template[2]] \o format(SubSeq(template, 4, n), kwargs)
            ELSE <<c>> \o format(Tail(template), kwargs)

\* str(n) for an integer
str_int(n) == <<ToString(n)>>

-----------------------------------------------------------------------------
(* Results of a call: a returned value, or a raised exception *)

Return(v) == [err |-> "none", val |-> Str(v)]
Raise(e) == [err |-> e, val |-> None]

\* lines 160-173 with the branches for "5" and "6" exchanged
system_password_to_hash_swapped(password) ==
    LET fragments == split(password, ":")
    IN IF Len(fragments) < 2 THEN Raise("IndexError")
       ELSE IF fragments[2] \notin {<<"1">>, <<"5">>, <<"6">>}
       THEN Raise("Exception: Unrecognised password format...")
       ELSE IF Len(fragments) < 4 THEN Raise("IndexError")
       ELSE LET algorithm == IF fragments[2] = <<"1">> THEN <<"md5">>
                             ELSE IF fragments[2] = <<"5">> THEN <<"sha512">>
                             ELSE <<"sha256">>
            IN Return(algorithm \o <<":">> \o fragments[3] \o <<":">> \o fragments[4])

\* system_password_to_hash, lines 160-173.  Python's fragments[i] is
\* fragments[i + 1] here; reading past the end of the list raises IndexError.
system_password_to_hash(password) ==
    LET fragments == split(password, ":")
    IN IF Len(fragments) < 2
       THEN Raise("IndexError")                        \* fragments[1], line 164
       ELSE IF fragments[2] \notin {<<"1">>, <<"5">>, <<"6">>}
       THEN Raise("Exception: Unrecognised password format...")   \* line 171
       ELSE IF Len(fragments) < 4
       THEN Raise("IndexError")                        \* fragments[2], fragments[3], line 173
       ELSE LET algorithm == IF fragments[2] = <<"1">> THEN <<"md5">>
                             ELSE IF fragments[2] = <<"5">> THEN <<"sha256">>
                             ELSE <<"sha512">>
            IN Return(algorithm \o <<":">> \o fragments[3] \o <<":">> \o fragments[4])

\* id_generator, lines 175-177: `size` characters, each any of `chars`.
\* IdChars stands for string.ascii_uppercase + string.digits: the script
\* never looks at which of the 36 characters were drawn, one stands for all.
size == 8
IdChars == {"A"}
id_generator == [1..size -> IdChars]

\* lines 185-186 with the test `args.syspassword is None`
ParsedPassword_none_only(s, p) ==
    IF s /\ p.none THEN {Str(g) : g \in id_generator} ELSE {p}

\* lines 185-186: the values args.syspassword can hold when main is called
ParsedPassword(s, p) ==
    IF s /\ ~Truthy(p) THEN {Str(g) : g \in id_generator} ELSE {p}

-----------------------------------------------------------------------------
(* The filesystem: directories that exist, files that exist, their content *)

DirNames == {"profile", "static", "custom", "nbextensions"}
FileNames == {"cert", "key", "mathjax", "toc.js", "toc.css", "custom.js", "config"}

\* profile_dir = ipython_dir/profile_nbserver          (line 105)
\* "static" = profile_dir/static, "custom" = profile_dir/static/custom (line 133)
\* "nbextensions" = ipython_dir/nbextensions           (line 132)
profile_dir == path_join(ipython_dir, <<"profile_">> \o profile_name)
certfile == path_join(profile_dir, <<"user_selfsigned_cert.pem">>)
keyfile == path_join(profile_dir, <<"user_selfsigned_key.pem">>)

\* which directory each file lives in
DirOf(name) ==
    CASE name \in {"cert", "key", "config"} -> "profile"
      [] name = "mathjax" -> "static"
      [] name = "custom.js" -> "custom"
      [] name \in {"toc.js", "toc.css"} -> "nbextensions"

\* an account that never ran the script, and one that holds an earlier profile
FreshFS == [dirs |-> {}, exists |-> {}, keymode |-> "none",
            data |-> [f \in FileNames |-> <<>>]]
PopulatedFS == [dirs |-> DirNames, exists |-> FileNames, keymode |-> "440",
                data |-> [f \in FileNames |-> <<"old ", f>>]]

\* open(path, "wb") + write with the content added to what the file held
WriteFile_append(f, name, content) ==
    [f EXCEPT !.exists = @ \cup {name}, !.data[name] = @ \o content]

\* open(path, "wb") + write: the file holds exactly `content` afterwards
WriteFile(f, name, content) ==
    [f EXCEPT !.exists = @ \cup {name}, !.data[name] = content]

\* mkdir -p: the directories exist afterwards
MkdirP(f, ds) == [f EXCEPT !.dirs = @ \cup ds]

-----------------------------------------------------------------------------
(* The command line and the environment *)

\* values of --syspassword: not given, empty, shadow-style records with a
\* known and an unknown algorithm id, records with too few and too many
\* fields, a crypt(3) string without colons, a salt holding a brace pair
PasswordArgs ==
    { None,
      Str(<<>>),
      Str(<<"x", ":", "1", ":", "abc", ":", "def">>),
      Str(<<"x", ":", "5", ":", "abc", ":", "def">>),
      Str(<<"x", ":", "6", ":", "abc", ":", "def">>),
      Str(<<"x", ":", "7", ":", "abc", ":", "def">>),
      Str(<<"x", ":", "6", ":", "abc">>),
      Str(<<"x", ":", "7">>),
      Str(<<"$", "6", "$", "abc", "$", "def">>),
      Str(<<"x", ":", "6", ":", "{", "port", "}", ":", "def">>),
      Str(<<"x", ":", "6", ":", "abc", ":", "def", ":", "15000">>) }

\* IPYTHONDIR / ~/.ipython: a plain path, and one with a brace pair in it
IPythonDirs ==
    { <<"/home/ubuntu/.ipython">>,
      <<"/mnt/", "{", "hash", "}", "/.ipython">> }

\* IPython.lib.passwd(): "sha1:<random salt>:<digest>" of what the user types
PromptHashes ==
    { <<"sha1", ":", "67c9e60bb8b6", ":", "9ffede0825894254b2e042ea597d771089e11aed">>,
      <<"sha1", ":", "a3f1c2d4e5b6", ":", "0c5da1b7e44d3b5a3e1f1a0d6b2c9e8f7a6b5c4d">> }

\* an external command exits zero or non-zero
Outcomes == {"ok", "fail"}

-----------------------------------------------------------------------------
(* main, lines 94-149: its steps in program order *)

\* the order of the system overview: TOC extension before MathJax
MainSteps_overview ==
    <<"profile", "password", "openssl", "chmod",
      "mkdir_ext", "curl_js", "curl_css", "mkdir_custom", "custom_js",
      "mathjax", "config">>

\* the certificate generated before the password is resolved
MainSteps_cert_first ==
    <<"profile", "openssl", "chmod", "password", "mathjax",
      "mkdir_ext", "curl_js", "curl_css", "mkdir_custom", "custom_js", "config">>

MainSteps ==
    <<"profile",        \* line 106
      "password",       \* lines 110-115
      "openssl",        \* line 121
      "chmod",          \* line 122
      "mathjax",        \* lines 126-128
      "mkdir_ext",      \* line 134
      "curl_js",        \* line 135
      "curl_css",       \* line 136
      "mkdir_custom",   \* line 137
      "custom_js",      \* lines 138-139
      "config">>        \* lines 142-149

StepIndex(step) == CHOOSE k \in 1..Len(MainSteps) : MainSteps[k] = step

\* the statement after `step`; after the last one main returns
Succ(step) ==
    IF StepIndex(step) = Len(MainSteps) THEN "done"
    ELSE MainSteps[StepIndex(step) + 1]

\* lines 155-158 with the exit status inspected (subprocess.check_call style)
run_cmd_checked(outcome) == IF outcome = "ok" THEN "returned" ELSE "raised"

\* run_cmd, lines 155-158: communicate() returns whatever the exit status
run_cmd(outcome) == "returned"

\* the current step returns and main goes on
Proceed ==
    /\ pc' = Succ(pc)
    /\ log' = Append(log, pc)
    /\ UNCHANGED <<error, diedAt>>

\* the current step raises; nothing catches it
Die(e) ==
    /\ pc' = "died"
    /\ log' = Append(log, pc)
    /\ error' = e
    /\ diedAt' = pc

AfterCmd(outcome) ==
    IF run_cmd(outcome) = "returned" THEN Proceed ELSE Die("CalledProcessError")

\* keyword arguments of profile_config.format, lines 145-149, with the
\* certificate and key paths exchanged
config_kwargs_swapped(hash) ==
    [name \in FieldNames |->
        CASE name = "hash" -> hash
          [] name = "port" -> str_int(ipython_port)
          [] name = "location" -> ipython_location
          [] name = "certfile" -> keyfile
          [] name = "keyfile" -> certfile]

\* keyword arguments of profile_config.format, lines 145-149
config_kwargs(hash) ==
    [name \in FieldNames |->
        CASE name = "hash" -> hash
          [] name = "port" -> str_int(ipython_port)
          [] name = "location" -> ipython_location
          [] name = "certfile" -> certfile
          [] name = "keyfile" -> keyfile]

-----------------------------------------------------------------------------
(* What the external tools leave behind when they succeed *)

\* `ipython profile create nbserver`: the profile directory with its default
\* config files (the "default profile config" of line 141); an existing
\* config file is kept
ProfileCreated(f) ==
    LET g == MkdirP(f, {"profile"})
    IN IF "config" \in g.exists THEN g
       ELSE WriteFile(g, "config", <<"default ipython_notebook_config.py">>)

\* openssl req -x509 ... -keyout keyfile -out certfile
CertificateGenerated(f) ==
    [WriteFile(WriteFile(f, "key", <<"rsa:1024 private key">>),
               "cert", <<"self-signed certificate">>)
        EXCEPT !.keymode = "umask"]

\* install_mathjax(tag="v2.2-latest", dest=profile_dir/static/mathjax)
MathjaxInstalled(f) ==
    WriteFile(MkdirP(f, {"profile", "static"}), "mathjax", <<"MathJax v2.2-latest">>)

\* curl -L url > path: the shell truncates path, curl fills it when it succeeds
Downloaded(f, name, outcome) ==
    WriteFile(f, name, IF outcome = "ok" THEN <<name, " from rawgithub.com">> ELSE <<>>)

-----------------------------------------------------------------------------
(* The script *)

Init ==
    /\ pc = "start"
    /\ runs = 1
    /\ silent = FALSE
    /\ syspassword = None
    /\ system_password = None
    /\ password_hash = None
    /\ prompted = FALSE
    /\ error = "none"
    /\ diedAt = "none"
    /\ log = <<>>
    /\ ipython_dir \in IPythonDirs
    /\ fs \in {FreshFS, PopulatedFS}
    /\ pre = fs
    /\ written = {}

\* lines 179-188: parse the flags, generate a password in silent mode when
\* none was given, call main; line 101 reads ipython_dir
ParseArgs ==
    /\ pc = "start"
    /\ \E s \in BOOLEAN, p \in PasswordArgs :
          /\ silent' = s
          /\ syspassword' = p
          /\ system_password' \in ParsedPassword(s, p)
    /\ pc' = MainSteps[1]
    /\ pre' = fs
    /\ UNCHANGED <<runs, password_hash, prompted, error, diedAt, log,
                   ipython_dir, fs, written>>

\* lines 103-106
CreateProfile ==
    /\ pc = "profile"
    /\ \E outcome \in Outcomes :
          /\ fs' = IF outcome = "ok" THEN ProfileCreated(fs) ELSE fs
          /\ AfterCmd(outcome)
    /\ UNCHANGED <<runs, silent, syspassword, system_password, password_hash,
                   prompted, ipython_dir, pre, written>>

\* lines 108-115
ResolvePassword ==
    /\ pc = "password"
    /\ IF ~Truthy(system_password)
       THEN /\ prompted' = TRUE
            /\ \E h \in PromptHashes : password_hash' = Str(h)
            /\ Proceed
       ELSE LET r == system_password_to_hash(system_password.str)
            IN /\ prompted' = prompted
               /\ IF r.err = "none"
                  THEN password_hash' = r.val /\ Proceed
                  ELSE password_hash' = password_hash /\ Die(r.err)
    /\ UNCHANGED <<runs, silent, syspassword, system_password,
                   ipython_dir, fs, pre, written>>

\* lines 117-121; openssl can only succeed where the profile directory exists
GenerateCertificate ==
    /\ pc = "openssl"
    /\ \E outcome \in Outcomes :
          /\ outcome = "ok" => "profile" \in fs.dirs
          /\ fs' = IF outcome = "ok" THEN CertificateGenerated(fs) ELSE fs
          /\ AfterCmd(outcome)
    /\ UNCHANGED <<runs, silent, syspassword, system_password, password_hash,
                   prompted, ipython_dir, pre, written>>

\* line 122; chmod can only succeed on a key file that exists
ChmodKey ==
    /\ pc = "chmod"
    /\ \E outcome \in Outcomes :
          /\ outcome = "ok" => "key" \in fs.exists
          /\ fs' = IF outcome = "ok" THEN [fs EXCEPT !.keymode = "440"] ELSE fs
          /\ AfterCmd(outcome)
    /\ UNCHANGED <<runs, silent, syspassword, system_password, password_hash,
                   prompted, ipython_dir, pre, written>>

\* lines 124-128: the import or the install may raise (line 125)
InstallMathjax ==
    /\ pc = "mathjax"
    /\ \/ fs' = MathjaxInstalled(fs) /\ Proceed
       \/ fs' = fs /\ Die("install_mathjax")
    /\ UNCHANGED <<runs, silent, syspassword, system_password, password_hash,
                   prompted, ipython_dir, pre, written>>

\* line 134
MkdirExtension ==
    /\ pc = "mkdir_ext"
    /\ \E outcome \in Outcomes :
          /\ fs' = IF outcome = "ok" THEN MkdirP(fs, {"nbextensions"}) ELSE fs
          /\ AfterCmd(outcome)
    /\ UNCHANGED <<runs, silent, syspassword, system_password, password_hash,
                   prompted, ipython_dir, pre, written>>

\* lines 135 and 136: without the directory the shell cannot open the target
Curl(step, name) ==
    /\ pc = step
    /\ \E outcome \in Outcomes :
          /\ outcome = "ok" => DirOf(name) \in fs.dirs
          /\ fs' = IF DirOf(name) \in fs.dirs THEN Downloaded(fs, name, outcome) ELSE fs
          /\ AfterCmd(outcome)
    /\ UNCHANGED <<runs, silent, syspassword, system_password, password_hash,
                   prompted, ipython_dir, pre, written>>

CurlTocJs == Curl("curl_js", "toc.js")
CurlTocCss == Curl("curl_css", "toc.css")

\* line 137
MkdirCustom ==
    /\ pc = "mkdir_custom"
    /\ \E outcome \in Outcomes :
          /\ fs' = IF outcome = "ok" THEN MkdirP(fs, {"profile", "static", "custom"})
                   ELSE fs
          /\ AfterCmd(outcome)
    /\ UNCHANGED <<runs, silent, syspassword, system_password, password_hash,
                   prompted, ipython_dir, pre, written>>

\* lines 138-139: open() raises IOError when the directory does not exist
WriteCustomJs ==
    /\ pc = "custom_js"
    /\ IF DirOf("custom.js") \in fs.dirs
       THEN fs' = WriteFile(fs, "custom.js", extension_javascript) /\ Proceed
       ELSE fs' = fs /\ Die("IOError")
    /\ UNCHANGED <<runs, silent, syspassword, system_password, password_hash,
                   prompted, ipython_dir, pre, written>>

\* lines 141-149
WriteConfig ==
    /\ pc = "config"
    /\ IF DirOf("config") \in fs.dirs
       THEN /\ fs' = WriteFile(fs, "config",
                        format(profile_config, config_kwargs(password_hash.str)))
            /\ written' = written \cup
                  {[silent |-> silent, syspassword |-> syspassword,
                    config |-> fs'.data["config"]]}
            /\ Proceed
       ELSE fs' = fs /\ written' = written /\ Die("IOError")
    /\ UNCHANGED <<runs, silent, syspassword, system_password, password_hash,
                   prompted, ipython_dir, pre>>

\* the script is invoked again on the same account
NextRun ==
    /\ pc \in {"done", "died"}
    /\ runs < MaxRuns
    /\ runs' = runs + 1
    /\ pc' = "start"
    /\ silent' = FALSE
    /\ syspassword' = None
    /\ system_password' = None
    /\ password_hash' = None
    /\ prompted' = FALSE
    /\ error' = "none"
    /\ diedAt' = "none"
    /\ log' = <<>>
    /\ pre' = fs
    /\ UNCHANGED <<ipython_dir, fs, written>>

Next ==
    \/ ParseArgs
    \/ CreateProfile
    \/ ResolvePassword
    \/ GenerateCertificate
    \/ ChmodKey
    \/ InstallMathjax
    \/ MkdirExtension
    \/ CurlTocJs
    \/ CurlTocCss
    \/ MkdirCustom
    \/ WriteCustomJs
    \/ WriteConfig

\* one invocation of the script
Spec == Init /\ [][Next]_vars

NextRepeat == Next \/ NextRun

\* up to MaxRuns invocations, one after the other, on one profile directory
InitRepeat == Init /\ ipython_dir = <<"/home/ubuntu/.ipython">>
SpecRepeat == InitRepeat /\ [][NextRepeat]_vars

-----------------------------------------------------------------------------
(* system_password_to_hash on its own, over every short string *)

HashSymbols == {":", "1", "5", "6", "x"}
HashInputs == UNION {[1..n -> HashSymbols] : n \in 0..MaxLen}

InitHash ==
    /\ pc = "hash_call"
    /\ runs = 1
    /\ silent = FALSE
    /\ syspassword = None
    /\ system_password \in {Str(s) : s \in HashInputs}
    /\ password_hash = None
    /\ prompted = FALSE
    /\ error = "none"
    /\ diedAt = "none"
    /\ log = <<>>
    /\ ipython_dir = <<"/home/ubuntu/.ipython">>
    /\ fs = FreshFS
    /\ pre = fs
    /\ written = {}

\* line 115 alone: the call and its result
Convert ==
    /\ pc = "hash_call"
    /\ LET r == system_password_to_hash(system_password.str)
       IN /\ password_hash' = r.val
          /\ error' = r.err
    /\ pc' = "hash_ret"
    /\ UNCHANGED <<runs, silent, syspassword, system_password, prompted, diedAt,
                   log, ipython_dir, fs, pre, written>>

NextHash == Convert

SpecHash == InitHash /\ [][NextHash]_vars

-----------------------------------------------------------------------------
(* Properties *)

Range(s) == {s[i] : i \in DOMAIN s}
IsPrefix(s, t) == Len(s) <= Len(t) /\ SubSeq(t, 1, Len(s)) = s

\* the password step of this run has been executed (it returned or raised)
PasswordStepDone == "password" \in Range(log)

UnrecognisedFormat == "Exception: Unrecognised password format..."

ColonPositions(s) == {i \in 1..Len(s) : s[i] = ":"}

\* a file is as it was when the run started
SameAsBefore(name) ==
    /\ (name \in fs.exists) = (name \in pre.exists)
    /\ fs.data[name] = pre.data[name]

\* the text holds a replacement field of the template: "{", a field name, "}"
HasPlaceholder(s) ==
    \E i \in 1..(Len(s) - 2) : s[i] = "{" /\ s[i + 1] \in FieldNames /\ s[i + 2] = "}"

\* C1: in a silent run without --syspassword, password resolution turns the
\* generated string into a password hash and the run goes on; it does not
\* abort in the password step.
C1_GeneratedPasswordYieldsHash ==
    (silent /\ ~Truthy(syspassword) /\ PasswordStepDone)
        => (error = "none" /\ ~password_hash.none)

\* C2: for an input with exactly four colon-separated fields id:alg:salt:hash,
\* alg "1", "5", "6" give md5:salt:hash, sha256:salt:hash, sha512:salt:hash
\* with salt and hash copied unchanged; any other alg fails and returns nothing.
C2_HashMapping ==
    LET p == system_password.str
        cp == ColonPositions(p)
    IN (pc = "hash_ret" /\ Cardinality(cp) = 3) =>
        LET i == CHOOSE x \in cp : \A y \in cp : x <= y
            k == CHOOSE x \in cp : \A y \in cp : y <= x
            j == CHOOSE x \in cp : x # i /\ x # k
            alg == SubSeq(p, i + 1, j - 1)
            salt == SubSeq(p, j + 1, k - 1)
            hash == SubSeq(p, k + 1, Len(p))
            tail == <<":">> \o salt \o <<":">> \o hash
        IN /\ alg = <<"1">> => error = "none" /\ password_hash = Str(<<"md5">> \o tail)
           /\ alg = <<"5">> => error = "none" /\ password_hash = Str(<<"sha256">> \o tail)
           /\ alg = <<"6">> => error = "none" /\ password_hash = Str(<<"sha512">> \o tail)
           /\ alg \notin {<<"1">>, <<"5">>, <<"6">>}
                => error # "none" /\ password_hash = None

C2_Witness ==
    /\ pc = "hash_ret"
    /\ system_password = Str(<<"x", ":", "6", ":", "1", ":", "5">>)
    /\ password_hash = Str(<<"sha512", ":", "1", ":", "5">>)

\* C3: a supplied password with fewer than four colon-separated fields makes
\* the password step fail with the explicitly raised unrecognised-format
\* error and with no other failure.
C3_ShortRecordIsFormatError ==
    (Truthy(syspassword) /\ PasswordStepDone
        /\ Cardinality(ColonPositions(system_password.str)) < 3)
        => error = UnrecognisedFormat

\* the steps of main that are one run_cmd call
CmdSteps ==
    {"profile", "openssl", "chmod", "mkdir_ext", "curl_js", "curl_css", "mkdir_custom"}

\* C4 as stated: whatever the external commands do, the run reaches the
\* writing of the configuration file; a run stops early only where something
\* other than an external command fails (password conversion, MathJax install).
C4_CommandFailureNeverStopsRun ==
    pc = "died" => diedAt \in {"password", "mathjax"}

\* C4 amended: the outcome of an external command is never inspected, main
\* always goes on with the statement after a run_cmd call; a run ends early
\* only in a step that raises in Python: password conversion, the MathJax
\* install, or opening custom.js or the config file in a directory that is
\* missing (as after a failed mkdir -p or profile creation).
C4_CommandOutcomeNotInspected ==
    [][ /\ pc \in CmdSteps => pc' = Succ(pc)
        /\ pc' = "died" => pc \in {"password", "mathjax", "custom_js", "config"}
      ]_vars

\* profile creation succeeded, openssl and mkdir -p nbextensions failed, and
\* the config file was still written
C4_Witness ==
    /\ pc = "done"
    /\ pre = FreshFS
    /\ "cert" \notin fs.exists
    /\ "nbextensions" \notin fs.dirs
    /\ "config" \in fs.exists

\* C5: without --silent a supplied --syspassword is not used: whenever the
\* password step of such a run yields a hash, it comes from the interactive
\* prompt.
C5_SyspasswordOnlyInSilentMode ==
    (~silent /\ PasswordStepDone /\ error = "none") => prompted

\* the template with the five values put in, piece by piece
ExpectedConfig(hash) ==
    <<profile_config[1]>> \o hash
    \o <<profile_config[5]>> \o <<"9510">>
    \o <<profile_config[9]>> \o <<"/ipython">>
    \o <<profile_config[13]>> \o <<"/ipython">>
    \o <<profile_config[17], "{", profile_config[20]>> \o <<"/ipython">>
    \o <<profile_config[24], "}", profile_config[27]>>
    \o path_join(profile_dir, <<"user_selfsigned_cert.pem">>)
    \o <<profile_config[31]>>
    \o path_join(profile_dir, <<"user_selfsigned_key.pem">>)
    \o <<profile_config[35]>>

\* C6 as stated: the written config file is the template with the five
\* values substituted verbatim and holds no placeholder token, for every
\* password hash and profile directory.
C6_NoPlaceholderLeft ==
    pc = "done" =>
        /\ fs.data["config"] = ExpectedConfig(password_hash.str)
        /\ ~HasPlaceholder(fs.data["config"])

\* C6 amended: the written config file is the template with the five values
\* substituted verbatim; it holds no placeholder token unless the password
\* hash or the profile directory path itself contains one (the values are
\* copied unescaped and not scanned again).
C6_VerbatimSubstitution ==
    pc = "done" =>
        /\ fs.data["config"] = ExpectedConfig(password_hash.str)
        /\ (~HasPlaceholder(password_hash.str) /\ ~HasPlaceholder(profile_dir))
              => ~HasPlaceholder(fs.data["config"])

C6_Witness ==
    /\ pc = "done"
    /\ password_hash = Str(<<"sha512", ":", "abc", ":", "def">>)
    /\ ~HasPlaceholder(profile_dir)
    /\ "config" \in fs.exists
    /\ ~HasPlaceholder(fs.data["config"])

\* C7 as stated: two completed runs with the same command line leave the
\* same config file.
C7_SameCommandLineSameConfig ==
    \A a, b \in written :
        (a.silent = b.silent /\ a.syspassword = b.syspassword) => a.config = b.config

\* C7 amended: two completed runs with the same command line, in which a
\* non-empty --syspassword is given, leave the same config file whatever the
\* file held before; without it the hash comes from the interactive prompt
\* and differs from run to run.
C7_SameSyspasswordSameConfig ==
    \A a, b \in written :
        (a.silent = b.silent /\ a.syspassword = b.syspassword /\ Truthy(a.syspassword))
            => a.config = b.config

\* the second of two completed runs with the same command line
C7_Witness ==
    /\ runs = 2
    /\ pc = "done"
    /\ Truthy(syspassword)
    /\ written = {[silent |-> silent, syspassword |-> syspassword,
                   config |-> fs.data["config"]]}
    /\ pre.data["config"] = fs.data["config"]

\* C8: the interactive prompt is reached exactly when main is called without
\* a password (None or empty), and never in a silent run, with or without
\* --syspassword, the empty string included.
C8_PromptOnlyWithoutPassword ==
    /\ PasswordStepDone => (prompted <=> ~Truthy(system_password))
    /\ prompted => PasswordStepDone
    /\ silent => ~prompted

C8_Witness ==
    /\ silent
    /\ syspassword = Str(<<>>)
    /\ PasswordStepDone
    /\ ~prompted

\* C9 as stated: the steps run in the order of the system overview, the
\* MathJax install after the TOC extension files and custom.js.
C9_OverviewOrder == IsPrefix(log, MainSteps_overview)

\* C9 amended: the steps run in this order: profile creation, password
\* resolution, certificate generation, key permissions, MathJax install, then
\* the TOC extension (mkdir, two downloads, mkdir, custom.js), then the
\* config file.
C9_CodeOrder ==
    IsPrefix(log, <<"profile", "password", "openssl", "chmod", "mathjax",
                    "mkdir_ext", "curl_js", "curl_css", "mkdir_custom",
                    "custom_js", "config">>)

C9_Witness ==
    /\ pc = "done"
    /\ Len(log) = 11
    /\ log[5] = "mathjax"
    /\ log[10] = "custom_js"

\* C10 as stated: when password resolution raises on a supplied
\* --syspassword, the certificate, key,
\* MathJax, toc.js, toc.css, custom.js and the config file are as before the
\* run, and only the profile-creation command has run.
C10_NothingTouchedOnPasswordFailure ==
    (pc = "died" /\ diedAt = "password" /\ Truthy(syspassword)) =>
        /\ \A f \in FileNames : SameAsBefore(f)
        /\ fs.keymode = pre.keymode
        /\ log = <<"profile", "password">>

\* C10 amended: when password resolution raises, the certificate, key,
\* MathJax, toc.js, toc.css and custom.js are as before the run and only the
\* profile-creation command has run; the config file is as before the run,
\* or, where there was none, the default one that profile creation made.
C10_OnlyProfileCreatedOnPasswordFailure ==
    (pc = "died" /\ diedAt = "password") =>
        /\ \A f \in FileNames \ {"config"} : SameAsBefore(f)
        /\ fs.keymode = pre.keymode
        /\ log = <<"profile", "password">>
        /\ \/ SameAsBefore("config")
           \/ /\ "config" \notin pre.exists
              /\ fs.data["config"] = <<"default ipython_notebook_config.py">>

C10_Witness ==
    /\ pc = "died"
    /\ diedAt = "password"
    /\ error = UnrecognisedFormat
    /\ pre = PopulatedFS
    /\ fs = pre

====
